---- MODULE Spec2Model ----
(***************************************************************************)
(* Model of backend/scripts/startMatchingServices.py: a launcher that      *)
(* walks the static SERVICES list, skips services whose port already       *)
(* accepts connections, spawns the others as detached children and polls   *)
(* their port for readiness, then prints a summary.                        *)
(*                                                                         *)
(* The environment (TCP ports, filesystem) is part of the state.  It may   *)
(* change while the launcher sleeps (time.sleep(1) in the readiness wait)  *)
(* and between two runs of the script.                                     *)
(***************************************************************************)
EXTENDS Integers, Sequences, FiniteSets, TLC

\* ------------------------------------------------------------------ bounds
\* Number of times the script is run one after another.
MaxRuns == 2

\* --------------------------------------------------------------- constants
\* range(10) of the readiness wait.
MaxAttempts == 10

\* The directory the launcher is started from.
LauncherDir == "launcher-cwd"

SERVICES ==
  << [name |-> "data-processor",     port |-> 8001, path |-> "services/data-processor"],
     [name |-> "people-matcher",     port |-> 8002, path |-> "services/people-matcher"],
     [name |-> "restaurant-matcher", port |-> 8003, path |-> "services/restaurant-matcher"] >>

Idx   == 1..Len(SERVICES)
Ports == {SERVICES[k].port : k \in Idx}
Paths == {SERVICES[k].path : k \in Idx}

\* What a connect to localhost:port does:
\*   "open"   connect_ex returns 0
\*   "closed" connect_ex returns an errno
\*   "fault"  the probe itself raises (socket() fails, localhost does not
\*            resolve): connect_ex only swallows errors of the C connect()
NetStates == {"open", "closed", "fault"}

\* What the filesystem and the OS do for a service directory, ordered by the
\* first call of start_service that fails:
\*   "missing" path.exists() is False
\*   "notdir"  the path exists but os.chdir raises (a file, no x permission)
\*   "nolog"   open("<name>.log", "w") raises
\*   "nospawn" subprocess.Popen raises
\*   "ok"      all four succeed
FsStates == {"missing", "notdir", "nolog", "nospawn", "ok"}

Outcomes == {"already-running", "missing-path", "started-ok", "slow-start",
             "spawn-failure"}

VARIABLES
  pc,             \* where main is: "idle", "loop", "wait", "done", "crashed"
  idx,            \* position of the for loop of main in SERVICES
  cwd,            \* process-wide working directory of the launcher
  original_dir,   \* local of start_service
  i,              \* readiness probes made by the current start_service call
  failed,         \* ... of which returned False
  success_count,  \* local of main
  result,         \* per descriptor: "pending" or its outcome in this run
  calls,          \* per descriptor: start_service calls in this run
  spawned,        \* per descriptor: children created in this run
  logOpened,      \* per descriptor: log file opened with "w" in this run
  threw,          \* per descriptor: the call that raised in this run
  procs,          \* per descriptor: detached children created over all runs
  summary,        \* what the summary block printed, "none" before it
  cwdAtCall,      \* working directory when the current call began
  runs,           \* runs of the script so far
  net,            \* environment: port -> NetStates
  fs              \* environment: path -> FsStates

vars == << pc, idx, cwd, original_dir, i, failed, success_count, result, calls,
           spawned, logOpened, threw, procs, summary, cwdAtCall, runs, net, fs >>

env == << net, fs >>

\* ------------------------------------------------------------ pure helpers

\* is_port_open, when it returns.
is_port_open(p) == net[p] = "open"

\* First part of start_service, lines 47-69: which exit it takes.
LaunchNoPortCheck(p, c) ==
  IF p = "fault" THEN "raise-probe"
  ELSE IF c = "missing" THEN "missing-path"
  ELSE IF c = "notdir" THEN "raise-chdir"
  ELSE IF c = "nolog" THEN "raise-open"
  ELSE IF c = "nospawn" THEN "raise-popen"
  ELSE "spawned"

LaunchNoPathCheck(p, c) ==
  IF p = "fault" THEN "raise-probe"
  ELSE IF p = "open" THEN "already-running"
  ELSE IF c \in {"notdir", "missing"} THEN "raise-chdir"
  ELSE IF c = "nolog" THEN "raise-open"
  ELSE IF c = "nospawn" THEN "raise-popen"
  ELSE "spawned"

Launch(p, c) ==
  IF p = "fault" THEN "raise-probe"
  ELSE IF p = "open" THEN "already-running"
  ELSE IF c = "missing" THEN "missing-path"
  ELSE IF c = "notdir" THEN "raise-chdir"
  ELSE IF c = "nolog" THEN "raise-open"
  ELSE IF c = "nospawn" THEN "raise-popen"
  ELSE "spawned"

\* open(f"{name}.log", "w") has succeeded on this exit.
OpensLogAlways(o) == o \in {"raise-popen", "spawned", "already-running"}

OpensLog(o) == o \in {"raise-popen", "spawned"}

\* finally: os.chdir(original_dir)
FinallyKeep(dir, orig) == dir

Finally(dir, orig) == orig

\* for i in range(10): the loop is over after this many probes.
ExhaustedLate(n) == n = MaxAttempts + 1

Exhausted(n) == n = MaxAttempts

\* if start_service(service): success_count += 1
CountAll(ok, n) == n + 1

Count(ok, n) == IF ok THEN n + 1 ELSE n

\* for service in SERVICES
NextIndexSkip(k) == k + 2

NextIndex(k) == k + 1

IsSuccess(r) == r \in {"started-ok", "already-running"}

\* ------------------------------------------------------------------- Init
Init ==
  /\ pc = "idle"
  /\ idx = 1
  /\ cwd = LauncherDir
  /\ original_dir = LauncherDir
  /\ i = 0
  /\ failed = 0
  /\ success_count = 0
  /\ result = [k \in Idx |-> "pending"]
  /\ calls = [k \in Idx |-> 0]
  /\ spawned = [k \in Idx |-> 0]
  /\ logOpened = [k \in Idx |-> FALSE]
  /\ threw = [k \in Idx |-> "none"]
  /\ procs = [k \in Idx |-> 0]
  /\ summary = "none"
  /\ cwdAtCall = LauncherDir
  /\ runs = 0
  /\ net \in [Ports -> NetStates]
  /\ fs \in [Paths -> FsStates]

\* ---------------------------------------------------------------- actions

\* main, lines 90-93: a fresh process of the script.
MainBegin ==
  /\ pc \in {"idle", "done", "crashed"}
  /\ runs < MaxRuns
  /\ runs' = runs + 1
  /\ pc' = "loop"
  /\ idx' = 1
  /\ cwd' = LauncherDir
  /\ original_dir' = LauncherDir
  /\ cwdAtCall' = LauncherDir
  /\ i' = 0
  /\ failed' = 0
  /\ success_count' = 0
  /\ result' = [k \in Idx |-> "pending"]
  /\ calls' = [k \in Idx |-> 0]
  /\ spawned' = [k \in Idx |-> 0]
  /\ logOpened' = [k \in Idx |-> FALSE]
  /\ threw' = [k \in Idx |-> "none"]
  /\ summary' = "none"
  /\ UNCHANGED << procs, env >>

\* start_service returns ok with outcome r; main counts it and moves on
\* (lines 95-97).
Return(ok, r) ==
  /\ result' = [result EXCEPT ![idx] = r]
  /\ success_count' = Count(ok, success_count)
  /\ idx' = NextIndex(idx)
  /\ pc' = "loop"

\* An exception leaves start_service and main: the script dies.
Crash(where) ==
  /\ threw' = [threw EXCEPT ![idx] = where]
  /\ pc' = "crashed"
  /\ UNCHANGED << idx, result, success_count >>

\* start_service, lines 39-69: up to the first sleep or to its return.
StartService ==
  /\ pc = "loop"
  /\ idx \in Idx
  /\ LET s == SERVICES[idx]
         o == Launch(net[s.port], fs[s.path])
     IN
       /\ calls' = [calls EXCEPT ![idx] = @ + 1]
       /\ cwdAtCall' = cwd
       /\ i' = 0
       /\ failed' = 0
       /\ logOpened' = [logOpened EXCEPT ![idx] = @ \/ OpensLog(o)]
       /\ CASE o = "raise-probe" ->
                 /\ Crash("probe0")
                 /\ UNCHANGED << cwd, original_dir, spawned, procs >>
            [] o = "already-running" ->
                 /\ Return(TRUE, "already-running")
                 /\ UNCHANGED << cwd, original_dir, spawned, procs, threw >>
            [] o = "missing-path" ->
                 /\ Return(FALSE, "missing-path")
                 /\ UNCHANGED << cwd, original_dir, spawned, procs, threw >>
            [] o = "raise-chdir" ->
                 /\ original_dir' = cwd
                 /\ Crash("chdir")
                 /\ UNCHANGED << cwd, spawned, procs >>
            [] o \in {"raise-open", "raise-popen"} ->
                 /\ original_dir' = cwd
                 /\ cwd' = Finally(s.path, cwd)
                 /\ threw' = [threw EXCEPT ![idx] =
                                IF o = "raise-open" THEN "open" ELSE "popen"]
                 /\ Return(FALSE, "spawn-failure")
                 /\ UNCHANGED << spawned, procs >>
            [] o = "spawned" ->
                 /\ original_dir' = cwd
                 /\ cwd' = s.path
                 /\ spawned' = [spawned EXCEPT ![idx] = @ + 1]
                 /\ procs' = [procs EXCEPT ![idx] = @ + 1]
                 /\ pc' = "wait"
                 /\ UNCHANGED << idx, result, success_count, threw >>
  /\ UNCHANGED << summary, runs, env >>

\* start_service, lines 72-87: one time.sleep(1) and one probe; the return
\* after the last probe and the except/finally clauses.
WaitProbe ==
  /\ pc = "wait"
  /\ ~Exhausted(i)
  /\ LET s == SERVICES[idx]
         n == i + 1
     IN
       /\ i' = n
       /\ CASE net[s.port] = "fault" ->
                 /\ threw' = [threw EXCEPT ![idx] = "probe"]
                 /\ cwd' = Finally(cwd, original_dir)
                 /\ Return(FALSE, "spawn-failure")
                 /\ UNCHANGED failed
            [] is_port_open(s.port) ->
                 /\ cwd' = Finally(cwd, original_dir)
                 /\ Return(TRUE, "started-ok")
                 /\ UNCHANGED << failed, threw >>
            [] OTHER ->
                 /\ failed' = failed + 1
                 /\ IF Exhausted(n)
                      THEN /\ cwd' = Finally(cwd, original_dir)
                           /\ Return(FALSE, "slow-start")
                      ELSE UNCHANGED << cwd, pc, idx, result, success_count >>
                 /\ UNCHANGED threw
  /\ UNCHANGED << original_dir, calls, spawned, logOpened, procs, summary,
                  cwdAtCall, runs, env >>

\* main, lines 99-110.
Summary ==
  /\ pc = "loop"
  /\ idx > Len(SERVICES)
  /\ summary' = [all   |-> success_count = Len(SERVICES),
                 count |-> success_count,
                 total |-> Len(SERVICES)]
  /\ pc' = "done"
  /\ UNCHANGED << idx, cwd, original_dir, i, failed, success_count, result,
                  calls, spawned, logOpened, threw, procs, cwdAtCall, runs,
                  env >>

\* The port the launcher is polling changes while it sleeps; any port changes
\* while the script is not running.
EnvPort ==
  /\ \E p \in Ports, v \in NetStates :
       /\ \/ pc = "wait" /\ idx \in Idx /\ p = SERVICES[idx].port
          \/ pc \in {"done", "crashed"} /\ runs < MaxRuns
       /\ v # net[p]
       /\ net' = [net EXCEPT ![p] = v]
  /\ UNCHANGED << pc, idx, cwd, original_dir, i, failed, success_count, result,
                  calls, spawned, logOpened, threw, procs, summary, cwdAtCall,
                  runs, fs >>

Next ==
  \/ MainBegin
  \/ StartService
  \/ WaitProbe
  \/ Summary
  \/ EnvPort

Spec == Init /\ [][Next]_vars

TypeOK ==
  /\ pc \in {"idle", "loop", "wait", "done", "crashed"}
  /\ idx \in 1..(Len(SERVICES) + 1)
  /\ cwd \in {LauncherDir} \cup Paths
  /\ i \in 0..MaxAttempts
  /\ failed \in 0..MaxAttempts
  /\ success_count \in 0..Len(SERVICES)
  /\ result \in [Idx -> Outcomes \cup {"pending"}]
  /\ runs \in 0..MaxRuns

\* ----------------------------------------------------------------- claims

PathOf(k) == SERVICES[k].path
PortOf(k) == SERVICES[k].port
Successes == {k \in Idx : IsSuccess(result[k])}
\* The step is a call of start_service for descriptor idx.
CallStep == pc = "loop" /\ idx \in Idx /\ calls'[idx] = calls[idx] + 1

\* C1: a call of start_service that begins while the descriptor's port accepts
\* connections creates no child, opens no log file, leaves the working
\* directory alone, reports already-running and is counted as a success.
C1_AlreadyRunningNoSpawn ==
  [][ (CallStep /\ net[PortOf(idx)] = "open")
        => /\ procs' = procs
           /\ spawned' = spawned
           /\ logOpened' = logOpened
           /\ cwd' = cwd
           /\ result'[idx] = "already-running"
           /\ success_count' = success_count + 1 ]_vars

\* Second run: the service the first run started is up and is not duplicated.
C1_Witness ==
  /\ runs = 2
  /\ \E k \in Idx : /\ result[k] = "already-running"
                    /\ procs[k] = 1
                    /\ spawned[k] = 0
                    /\ ~logOpened[k]

\* C2 as stated: every descriptor whose path does not exist gets missing-path
\* and no child from a call of start_service that returns.
C2_MissingPathAlways ==
  \A k \in Idx :
    (calls[k] >= 1 /\ fs[PathOf(k)] = "missing" /\ threw[k] = "none")
      => (result[k] = "missing-path" /\ spawned[k] = 0)

\* C2 amended: a call of start_service for a descriptor whose path does not
\* exist and whose port refuses the first probe reports missing-path, is not
\* counted as a success, creates no child and leaves the working directory
\* as it was.
C2_MissingPathWhenPortClosed ==
  [][ (CallStep /\ fs[PathOf(idx)] = "missing" /\ net[PortOf(idx)] = "closed")
        => /\ result'[idx] = "missing-path"
           /\ success_count' = success_count
           /\ procs' = procs
           /\ spawned' = spawned
           /\ cwd' = cwd ]_vars

C2_Witness ==
  \E k \in Idx : /\ fs[PathOf(k)] = "missing"
                 /\ net[PortOf(k)] = "closed"
                 /\ result[k] = "missing-path"
                 /\ spawned[k] = 0
                 /\ cwd = LauncherDir

\* C3: whenever start_service is not executing (it has returned, or an
\* exception has left it), the working directory is the one the call began
\* in; in particular after an exception of open, Popen or a readiness probe.
C3_CwdRestored ==
  pc \in {"loop", "done", "crashed"} => cwd = cwdAtCall

\* A call that changed directory, spawned, and left through the except clause.
C3_Witness ==
  /\ pc = "loop"
  /\ idx > 1
  /\ result[idx - 1] = "spawn-failure"
  /\ threw[idx - 1] = "probe"
  /\ spawned[idx - 1] = 1
  /\ cwd = LauncherDir

\* C4: with every probe answering open or closed, no condition of a
\* descriptor (path missing, path not enterable, log not openable, Popen
\* raising) stops main before the summary.
C4_NoErrorIsFatal ==
  ~(pc = "crashed" /\ \E k \in Idx : threw[k] = "chdir")

\* C5: a run in which exactly one descriptor raised during the spawn step
\* (chdir, open of the log, Popen) and no probe raised ends with the summary,
\* that descriptor reported spawn-failure, every descriptor processed and
\* all of them in the summary.
C5_OneSpawnThrowOthersProcessed ==
  ( /\ pc \in {"done", "crashed"}
    /\ Cardinality({k \in Idx : threw[k] \in {"chdir", "open", "popen"}}) = 1
    /\ \A k \in Idx : threw[k] \notin {"probe0", "probe"} )
  => /\ pc = "done"
     /\ \A k \in Idx : /\ calls[k] = 1
                       /\ result[k] # "pending"
                       /\ threw[k] # "none" => result[k] = "spawn-failure"
     /\ summary.total = Len(SERVICES)
     /\ summary.count = Cardinality(Successes)

\* C6: the readiness wait makes at most 10 probes and never waits for an
\* 11th; the call returns slow-start exactly when 10 probes returned False,
\* and started-ok at the first probe that returns True.
C6_BoundedWait ==
  /\ i <= 10
  /\ failed <= i
  /\ pc = "wait" => (i < 10 /\ failed = i /\ result[idx] = "pending")
  /\ (pc \in {"loop", "done"} /\ idx > 1) =>
       /\ result[idx - 1] = "slow-start" <=> failed = 10
       /\ result[idx - 1] = "started-ok" => (i >= 1 /\ failed = i - 1)

C6_Witness ==
  /\ pc = "loop"
  /\ idx > 1
  /\ result[idx - 1] = "slow-start"
  /\ i = 10
  /\ failed = 10

\* C7: success_count is the number of processed descriptors whose outcome is
\* started-ok or already-running; the summary reports that count out of
\* len(SERVICES) and says "all started" only when every outcome is one of
\* the two.
C7_SummaryCounts ==
  /\ pc \in {"loop", "wait", "done"} => success_count = Cardinality(Successes)
  /\ pc = "done" =>
       /\ summary.count = Cardinality(Successes)
       /\ summary.total = Len(SERVICES)
       /\ summary.all <=> \A k \in Idx : IsSuccess(result[k])

C7_Witness ==
  /\ pc = "done"
  /\ \E k \in Idx : result[k] = "missing-path"
  /\ \E k \in Idx : result[k] = "already-running"
  /\ \E k \in Idx : result[k] = "slow-start"
  /\ summary.count = 1
  /\ ~summary.all

\* C8 as stated: a run that reaches the summary has opened every
\* descriptor's log file for writing.
C8_LogTruncatedEveryRun ==
  pc = "done" => \A k \in Idx : logOpened[k]

\* C8 amended: in each run the log file of a descriptor is opened for writing
\* whenever the run spawns a child for it (outcome started-ok or slow-start,
\* or still waiting), and is not opened when the outcome is already-running
\* or missing-path.
C8_LogTruncatedWhenSpawned ==
  \A k \in Idx :
    /\ (spawned[k] >= 1 \/ result[k] \in {"started-ok", "slow-start"})
         => logOpened[k]
    /\ result[k] \in {"already-running", "missing-path"} => ~logOpened[k]

C8_Witness ==
  /\ runs = 2
  /\ \E k \in Idx : result[k] = "started-ok" /\ logOpened[k]
  /\ \E k \in Idx : result[k] = "already-running" /\ ~logOpened[k] /\ procs[k] = 1

\* C9: in one run start_service is called at most once per descriptor, at
\* most one child is created per descriptor, and a descriptor has a child
\* only while its call is waiting or when its outcome is started-ok or
\* slow-start.
C9_ChildOnlyForStartedOrSlow ==
  \A k \in Idx :
    /\ calls[k] <= 1
    /\ spawned[k] <= 1
    /\ calls[k] = 0 => result[k] = "pending"
    /\ spawned[k] >= 1 => result[k] \in {"pending", "started-ok", "slow-start"}

====
